---- MODULE Spec2Model ----
(***************************************************************************)
(* A model of the synthetic job generator (jobs/generate_jobs.py) and of   *)
(* the job dataset validator (src/validate_jobs.py).                       *)
(*                                                                         *)
(* Conventions.                                                            *)
(*  - A Python string that is split on spaces is a sequence of its         *)
(*    space-free words: "Project Manager" is <<"Project", "Manager">>,     *)
(*    the empty string is <<>>.  f"{a} {b}" is then a \o b and             *)
(*    k.split(" ", 1) cuts the first word off.                             *)
(*  - A Python dict is the sequence of its items in insertion order.       *)
(*  - random.random() is u / den for u in 0..den-1; the weights of         *)
(*    LEVEL_WEIGHTS are kept in hundredths, so every comparison of the     *)
(*    code is an exact comparison of integers.                             *)
(***************************************************************************)
EXTENDS Integers, Sequences, FiniteSets, TLC

VARIABLES
    wc_weights,   \* _weighted_choice: the weights_dict handed in
    wc_result,    \* _weighted_choice: the call's outcome
    hr_call,      \* generate_hr_requirements: arguments and random draws
    hr_reqs,      \* generate_hr_requirements: the mapping returned
    shared,       \* main / validate_jobs: the files under shared/
    today,        \* date.today()
    rows,         \* main: rows
    existing_ids, \* main: existing_ids
    csv,          \* data/jobs.csv
    errors,       \* validate_jobs: errors of the last run
    prev,         \* the file and the errors of the run before the last one
    pc            \* where main / validate_jobs stand

vars == <<wc_weights, wc_result, hr_call, hr_reqs, shared, today, rows,
          existing_ids, csv, errors, prev, pc>>

choiceVars == <<wc_weights, wc_result>>
allocVars  == <<hr_call, hr_reqs>>
buildVars  == <<shared, today, rows, existing_ids, csv, errors, prev, pc>>

(***************************************************************************)
(* Bounds of the exploration.                                              *)
(***************************************************************************)
MaxKeys    == 3   \* keys of a weights_dict handed to _weighted_choice
MaxWeight  == 2   \* largest weight of such a key
DrawDen    == 4   \* random.random() is u / DrawDen
JitterDen  == 2   \* random.uniform(-1, 1) is k / JitterDen
MaxTotal   == 4   \* largest hr_requirements_people.max
MaxN       == 4   \* largest settings["n"] of a run of main
JobDrawDen == 2   \* random.random() is u / JobDrawDen in a one-record run
JobJitterDen == 1 \* random.uniform(-1, 1) is k / JobJitterDen in such a run
MaxAuditN  == 2   \* largest settings["n"] of a run whose file is edited
MaxEdits   == 2   \* edits of data/jobs.csv between runs of the validator

(***************************************************************************)
(* Generic helpers.                                                        *)
(***************************************************************************)
Range(s) == {s[x] : x \in DOMAIN s}

Min2(a, b) == IF a <= b THEN a ELSE b

Max2(a, b) == IF a >= b THEN a ELSE b

\* The sequences of k distinct elements of the sequence s, as
\* random.sample(s, k) may return them.
Samples(s, k) ==
    {[x \in 1..k |-> s[p[x]]] :
        p \in {q \in [1..k -> DOMAIN s] :
                 \A a, b \in 1..k : a # b => q[a] # q[b]}}

RECURSIVE SumWeights(_)
SumWeights(items) ==
    IF items = <<>> THEN 0 ELSE items[1][2] + SumWeights(Tail(items))

(***************************************************************************)
(* Rule tables.                                                            *)
(***************************************************************************)
SolutionsArchitect == <<"Solutions/Technical", "Architect">>

ProjectManager == <<"Project", "Manager">>

SERVICE_LINE_TO_ROLES ==
    [x \in {"Application Development & Maintenance",
            "Data Engineering & Analytics", "AI/ML & MLOps",
            "Cloud Migration & Modernization", "DevOps & SRE",
            "Cybersecurity", "ERP & SAP", "Salesforce & ServiceNow",
            "Quality Engineering & Testing",
            "Consulting & Business Analysis"} |->
      CASE x = "Application Development & Maintenance" ->
             << <<"Software", "Engineer">>, <<"Backend", "Engineer">>,
                <<"Frontend", "Engineer">>, <<"Full-Stack", "Developer">> >>
        [] x = "Data Engineering & Analytics" ->
             << <<"Data", "Engineer">>, <<"Business", "Analyst">>,
                <<"QA/Test", "Engineer">> >>
        [] x = "AI/ML & MLOps" ->
             << <<"Data", "Scientist">>, <<"ML", "Engineer">>,
                <<"Data", "Engineer">> >>
        [] x = "Cloud Migration & Modernization" ->
             << <<"Cloud", "Engineer">>, <<"DevOps/SRE", "Engineer">>,
                SolutionsArchitect >>
        [] x = "DevOps & SRE" ->
             << <<"DevOps/SRE", "Engineer">>, <<"Cloud", "Engineer">> >>
        [] x = "Cybersecurity" ->
             << <<"Cybersecurity", "Analyst">> >>
        [] x = "ERP & SAP" ->
             << <<"ERP/SAP", "Consultant">>, SolutionsArchitect >>
        [] x = "Salesforce & ServiceNow" ->
             << <<"Salesforce/ServiceNow", "Developer">>, SolutionsArchitect >>
        [] x = "Quality Engineering & Testing" ->
             << <<"QA/Test", "Engineer">>, <<"Business", "Analyst">> >>
        [] OTHER ->
             << <<"Business", "Analyst">>, ProjectManager >>]

SERVICE_LINE_TO_SKILL_CATS ==
    [x \in DOMAIN SERVICE_LINE_TO_ROLES |->
      CASE x = "Application Development & Maintenance" ->
             <<"Programming", "Web_Mobile">>
        [] x = "Data Engineering & Analytics" ->
             <<"Data_Engineering", "BI_Analytics", "Integration_ETL",
               "Programming">>
        [] x = "AI/ML & MLOps" ->
             <<"AI_ML", "Data_Engineering", "Programming">>
        [] x = "Cloud Migration & Modernization" ->
             <<"Cloud_Infrastructure", "DevOps_SRE", "Programming">>
        [] x = "DevOps & SRE" ->
             <<"DevOps_SRE", "Cloud_Infrastructure">>
        [] x = "Cybersecurity" ->
             <<"Cybersecurity", "Cloud_Infrastructure">>
        [] x = "ERP & SAP" ->
             <<"ERP_Platforms", "Integration_ETL">>
        [] x = "Salesforce & ServiceNow" ->
             <<"ERP_Platforms", "Integration_ETL", "Programming">>
        [] x = "Quality Engineering & Testing" ->
             <<"Testing_QA", "Programming">>
        [] OTHER ->
             <<"BI_Analytics", "Data_Engineering">>]

\* The weights in hundredths, in declaration order.
LEVEL_WEIGHTS ==
    << <<"PAT", 5>>, <<"PA", 20>>, <<"Associate", 35>>, <<"SrAssociate", 25>>,
       <<"Manager", 10>>, <<"SrManager", 4>>, <<"Arch/AD", 1>>,
       <<"Director+", 0>> >>

(***************************************************************************)
(* _weighted_choice.  r = (u / den) * total; the scan returns the first    *)
(* key with upto + w >= r, and items[-1][0] when none does, which raises   *)
(* IndexError on an empty list.                                            *)
(***************************************************************************)
Returned(k) == [raised |-> "", key |-> k]

Raised(e) == [raised |-> e, key |-> ""]

RECURSIVE ScanWeights(_, _, _, _, _)
ScanWeights(items, idx, upto, u, den) ==
    IF idx > Len(items)
    THEN IF items = <<>> THEN Raised("IndexError")
                         ELSE Returned(items[Len(items)][1])
    ELSE IF (upto + items[idx][2]) * den >= u * SumWeights(items)
         THEN Returned(items[idx][1])
         ELSE ScanWeights(items, idx + 1, upto + items[idx][2], u, den)

_weighted_choice(items, u, den) == ScanWeights(items, 1, 0, u, den)

(***************************************************************************)
(* The weights_dicts explored: up to MaxKeys keys, in declaration order,   *)
(* each with a weight in 0..MaxWeight.                                     *)
(***************************************************************************)
KeyNames == <<"A", "B", "C", "D", "E">>

WeightDicts ==
    UNION {{[x \in 1..n |-> <<KeyNames[x], w[x]>>] : w \in [1..n -> 0..MaxWeight]}
           : n \in 0..Min2(MaxKeys, Len(KeyNames))}

NoCall == [raised |-> "", key |-> "", u |-> -1]

InitChoice ==
    /\ wc_weights \in WeightDicts
    /\ wc_result = NoCall
    /\ hr_call = 0 /\ hr_reqs = <<>>
    /\ shared = 0 /\ today = 0 /\ rows = <<>> /\ existing_ids = <<>>
    /\ csv = <<>> /\ errors = <<>> /\ prev = 0 /\ pc = "_weighted_choice"

WeightedChoice ==
    /\ wc_result = NoCall
    /\ \E u \in 0..(DrawDen - 1) :
         LET res == _weighted_choice(wc_weights, u, DrawDen)
         IN  wc_result' = [raised |-> res.raised, key |-> res.key, u |-> u]
    /\ UNCHANGED <<wc_weights, allocVars, buildVars>>

(***************************************************************************)
(* generate_hr_requirements.                                               *)
(***************************************************************************)
\* int(round(num / den)) for den > 0: Python rounds halves to even.
RoundHalfEven(num, den) ==
    LET q == num \div den
        r == num % den
    IN  IF 2 * r < den THEN q
        ELSE IF 2 * r > den THEN q + 1
        ELSE IF q % 2 = 0 THEN q ELSE q + 1

\* reqs.get(key, 0)
DictGet(reqs, key) ==
    IF \E x \in DOMAIN reqs : reqs[x][1] = key
    THEN (CHOOSE it \in Range(reqs) : it[1] = key)[2]
    ELSE 0

\* reqs[key] = value
DictSet(reqs, key, value) ==
    IF \E x \in DOMAIN reqs : reqs[x][1] = key
    THEN [x \in DOMAIN reqs |->
            IF reqs[x][1] = key THEN <<key, value>> ELSE reqs[x]]
    ELSE Append(reqs, <<key, value>>)

\* The level drawn by _weighted_choice(LEVEL_WEIGHTS) at random() = u / den.
SampledLevel(u, den) == _weighted_choice(LEVEL_WEIGHTS, u, den).key

\* The guard with the architect role forgotten.
GuardedLevelOnlyManager(role, level) ==
    IF role = ProjectManager /\ level \in {"PAT", "PA"}
    THEN "Associate"
    ELSE level

\* The guard promoting to a level name no vocabulary holds.
GuardedLevelUnknown(role, level) ==
    IF role \in {SolutionsArchitect, ProjectManager} /\ level \in {"PAT", "PA"}
    THEN "Assoc"
    ELSE level

\* Lines 110-111: the level a bucket is keyed with.
GuardedLevel(role, level) ==
    IF role \in {SolutionsArchitect, ProjectManager} /\ level \in {"PAT", "PA"}
    THEN "Associate"
    ELSE level

\* The allocation with the last bucket drawn like the others.
AllocNoRemainder(total, n_buckets, idx, remaining, k, jden) ==
    Min2(Max2(1, RoundHalfEven(total * jden + k * n_buckets, n_buckets * jden)),
         remaining - (n_buckets - idx))

\* Lines 104-108: the headcount of bucket idx; jitter is k / jden, for k in
\* -jden..jden.  random.uniform(-1, 1) yields -1 and, up to the rounding of
\* the float sum, +1; the one sum whose rounding differs at +1 (total = 1,
\* n_buckets = 2) is clamped by line 106 to the same headcount.
Alloc(total, n_buckets, idx, remaining, k, jden) ==
    IF idx < n_buckets
    THEN Min2(Max2(1, RoundHalfEven(total * jden + k * n_buckets,
                                    n_buckets * jden)),
              remaining - (n_buckets - idx))
    ELSE Max2(1, remaining)

\* The loop of lines 102-113 from bucket idx on.  levels[idx] is the level
\* sampled for bucket idx, ks[idx] the jitter drawn for it.
RECURSIVE HrLoop(_, _, _, _, _, _, _)
HrLoop(chosen_roles, total, levels, ks, jden, idx, acc) ==
    IF idx > Len(chosen_roles) THEN acc.reqs
    ELSE
      LET role  == chosen_roles[idx]
          alloc == Alloc(total, Len(chosen_roles), idx, acc.remaining,
                         IF idx < Len(chosen_roles) THEN ks[idx] ELSE 0, jden)
          key   == <<GuardedLevel(role, levels[idx])>> \o role
      IN  HrLoop(chosen_roles, total, levels, ks, jden, idx + 1,
                 [reqs      |-> DictSet(acc.reqs, key,
                                        DictGet(acc.reqs, key) + alloc),
                  remaining |-> acc.remaining - alloc])

generate_hr_requirements(chosen_roles, total, levels, ks, jden) ==
    HrLoop(chosen_roles, total, levels, ks, jden, 1,
           [reqs |-> <<>>, remaining |-> total])

\* Line 95.
CandidateRoles(roles, service_line) ==
    IF service_line \in DOMAIN SERVICE_LINE_TO_ROLES
    THEN SERVICE_LINE_TO_ROLES[service_line]
    ELSE roles

\* Every (total, chosen_roles, levels, ks) lines 96-105 may draw, and the
\* mapping returned for it.
HrOutcomes(roles, people, service_line, dden, jden) ==
    LET candidate_roles == CandidateRoles(roles, service_line)
    IN  UNION {UNION {
          {[total |-> total, chosen_roles |-> chosen, levels |-> levels,
            ks |-> ks,
            reqs |-> generate_hr_requirements(chosen, total, levels, ks, jden)] :
             chosen \in Samples(candidate_roles, n_buckets),
             levels \in [1..n_buckets ->
                           {SampledLevel(u, dden) : u \in 0..(dden - 1)}],
             ks \in [1..(n_buckets - 1) -> (-jden)..jden]}
          : n_buckets \in 1..Min2(3, Len(candidate_roles))}
          : total \in people.min..people.max}

AllocServiceLines ==
    {"Cloud Migration & Modernization", "Consulting & Business Analysis",
     "Cybersecurity", "Unlisted Service"}

\* The roles_levels["roles"] handed to the allocator explored on its own; a
\* role listed twice may be sampled twice, and its buckets merge.
AllocRoles == << ProjectManager, <<"Data", "Engineer">>, ProjectManager >>

InitAlloc ==
    /\ wc_weights = <<>> /\ wc_result = NoCall
    /\ hr_call \in {[service_line |-> sl, people |-> [min |-> 1, max |-> MaxTotal],
                      total |-> 0, chosen_roles |-> <<>>, levels |-> <<>>,
                      ks |-> <<>>] : sl \in AllocServiceLines}
    /\ hr_reqs = <<>>
    /\ shared = 0 /\ today = 0 /\ rows = <<>> /\ existing_ids = <<>>
    /\ csv = <<>> /\ errors = <<>> /\ prev = 0 /\ pc = "generate_hr_requirements"

GenerateHrRequirements ==
    /\ pc = "generate_hr_requirements"
    /\ pc' = "returned"
    /\ LET candidate_roles == CandidateRoles(AllocRoles, hr_call.service_line)
       IN  \E total \in hr_call.people.min..hr_call.people.max,
              n_buckets \in 1..Min2(3, Len(candidate_roles)) :
           \E chosen \in Samples(candidate_roles, n_buckets),
              levels \in [1..n_buckets ->
                            {SampledLevel(u, DrawDen) : u \in 0..(DrawDen - 1)}],
              ks \in [1..(n_buckets - 1) -> (-JitterDen)..JitterDen] :
             /\ hr_call' = [hr_call EXCEPT !.total = total,
                                           !.chosen_roles = chosen,
                                           !.levels = levels, !.ks = ks]
             /\ hr_reqs' = generate_hr_requirements(chosen, total, levels, ks,
                                                    JitterDen)
    /\ UNCHANGED <<choiceVars, shared, today, rows, existing_ids, csv, errors,
                   prev>>

(***************************************************************************)
(* generate_job.                                                           *)
(***************************************************************************)
DigitChars == <<"0", "1", "2", "3", "4", "5", "6", "7", "8", "9">>

RECURSIVE Decimal(_)
Decimal(n) ==
    IF n < 10 THEN <<DigitChars[n + 1]>>
    ELSE Decimal(n \div 10) \o <<DigitChars[(n % 10) + 1]>>

RECURSIVE ZeroPad(_, _)
ZeroPad(digits, width) ==
    IF Len(digits) >= width THEN digits ELSE ZeroPad(<<"0">> \o digits, width)

\* f"P{i:04d}", as the sequence of its characters.
FormatJobId(i) == <<"P">> \o ZeroPad(Decimal(i), 4)

\* A date is <<year, month, day>>; isoformat() writes the three fields at
\* fixed width, so that comparing two ISO strings is comparing the triples
\* lexicographically.
IsLeap(y) == (y % 4 = 0 /\ y % 100 # 0) \/ y % 400 = 0

DaysInMonth(y, m) ==
    IF m = 2 THEN (IF IsLeap(y) THEN 29 ELSE 28)
    ELSE IF m \in {4, 6, 9, 11} THEN 30 ELSE 31

\* d + timedelta(days=k), a month at a time.
RECURSIVE AddDays(_, _)
AddDays(d, k) ==
    IF d[3] + k <= DaysInMonth(d[1], d[2]) THEN <<d[1], d[2], d[3] + k>>
    ELSE AddDays(IF d[2] < 12 THEN <<d[1], d[2] + 1, 1>> ELSE <<d[1] + 1, 1, 1>>,
                 k - (DaysInMonth(d[1], d[2]) - d[3] + 1))

\* a >= b on ISO date strings.
IsoGE(a, b) ==
    \/ a[1] > b[1]
    \/ a[1] = b[1] /\ a[2] > b[2]
    \/ a[1] = b[1] /\ a[2] = b[2] /\ a[3] >= b[3]

\* rand_date_range(months) with random.randint(0, 60) = offset;
\* int(30.4 * months) is 304 * months \div 10.
rand_date_range(day, offset, months) ==
    LET start == AddDays(day, offset)
    IN  <<start, AddDays(start, (304 * months) \div 10)>>

\* d[key] of a dict given as its items.
Lookup(d, key) == (CHOOSE it \in Range(d) : it[1] = key)[2]

\* list(d.keys())
Keys(d) == [x \in DOMAIN d |-> d[x][1]]

\* list(dict.fromkeys(s))
RECURSIVE Dedupe(_)
Dedupe(s) ==
    IF s = <<>> THEN <<>>
    ELSE LET init == Dedupe(SubSeq(s, 1, Len(s) - 1))
         IN  IF s[Len(s)] \in Range(init) THEN init
             ELSE Append(init, s[Len(s)])

\* s[:k]
Prefix(s, k) == SubSeq(s, 1, Min2(k, Len(s)))

\* The categories with the service line ignored.
AllowedCatsAny(skills_by_cat, service_line) == Keys(skills_by_cat)

\* Line 138.
AllowedCats(skills_by_cat, service_line) ==
    IF service_line \in DOMAIN SERVICE_LINE_TO_SKILL_CATS
    THEN SERVICE_LINE_TO_SKILL_CATS[service_line]
    ELSE Keys(skills_by_cat)

\* Lines 141-143: the lists the loop over pick_cats may build.
RECURSIVE SkillLists(_, _)
SkillLists(skills_by_cat, pick_cats) ==
    IF pick_cats = <<>> THEN {<<>>}
    ELSE LET pool == Lookup(skills_by_cat, pick_cats[1])
         IN  UNION {{first \o rest :
                        first \in Samples(pool, Min2(r, Len(pool))),
                        rest \in SkillLists(skills_by_cat, Tail(pick_cats))}
                    : r \in 1..3}

\* Lines 138-144: the values of skills.
SkillsOutcomes(skills_by_cat, service_line, max) ==
    LET allowed_cats == AllowedCats(skills_by_cat, service_line)
    IN  UNION {{Prefix(Dedupe(l), max) : l \in SkillLists(skills_by_cat, pick_cats)}
               : pick_cats \in Samples(allowed_cats, Min2(2, Len(allowed_cats)))}

\* The elements of s kept by the coin flips of line 155.
RECURSIVE Filter(_, _)
Filter(s, keep) ==
    IF s = <<>> THEN <<>>
    ELSE LET init == Filter(SubSeq(s, 1, Len(s) - 1), keep)
         IN  IF keep[Len(s)] THEN Append(init, s[Len(s)]) ELSE init

\* The sampling with up to three ids drawn.
SimilarOutcomesUpToThree(existing_jobs) ==
    IF existing_jobs = <<>> THEN {<<>>}
    ELSE UNION {Samples(existing_jobs, k) : k \in 0..Min2(3, Len(existing_jobs))}

\* Lines 153-159: the values of similar.
SimilarOutcomes(existing_jobs) ==
    IF existing_jobs = <<>> THEN {<<>>}
    ELSE UNION {UNION {
           LET filtered == Filter(existing_jobs, keep)
               pool == IF filtered = <<>> THEN existing_jobs ELSE filtered
           IN  IF Len(pool) >= k THEN Samples(pool, k) ELSE {Prefix(pool, k)}
           : k \in 0..2}
           : keep \in [DOMAIN existing_jobs -> BOOLEAN]}

\* json.dumps of a dict: a cell that json.loads reads back as that dict.
JsonObject(items) == [json |-> "object", items |-> items]

\* The keys of settings["priority_weights"] random.choices may return.
PriorityOutcomes(priority_weights) ==
    {it[1] : it \in {x \in Range(priority_weights) : x[2] > 0}}

\* Line 124; coin is random.random() < settings["remote_mix_probability"].
RemotePossible(location, coin) == (location = "Remote") \/ coin

\* Lines 118-177: the record generate_job(i, ...) returns for the draws dr.
generate_job(i, dr) ==
    [job_id           |-> FormatJobId(i),
     project_name     |-> <<dr.service_line, "for", dr.domain>>,
     domain           |-> dr.domain,
     location         |-> dr.location,
     start_date       |-> dr.dates[1],
     end_date         |-> dr.dates[2],
     duration_months  |-> dr.months,
     budget           |-> dr.budget,
     technologies     |-> dr.skills,
     hr_requirements  |-> JsonObject(dr.hr_reqs),
     min_experience   |-> dr.min_exp,
     manager_pref     |-> <<>>,
     priority         |-> dr.priority,
     similar_projects |-> dr.similar,
     remote_possible  |-> dr.remote_possible]

(***************************************************************************)
(* validate_jobs.  An error is <<job_id, msg>>, msg the sequence of the    *)
(* message's parts.                                                        *)
(***************************************************************************)
AllSkills(sh) == UNION {Range(it[2]) : it \in Range(sh.skills)}

AllRoles(sh) == Range(sh.roles_levels.roles)

AllLevels(sh) == Range(Keys(sh.roles_levels.levels))

AllLocations(sh) ==
    Range(sh.locations.india \o sh.locations.global \o sh.locations.virtual)

\* Lines 37-38.
DateErrors(row) ==
    IF IsoGE(row.start_date, row.end_date)
    THEN << <<row.job_id, <<"Invalid", "dates">> >> >>
    ELSE <<>>

\* Lines 41-42.
DomainErrors(row, sh) ==
    IF row.domain \notin Range(sh.domains.industry_verticals)
    THEN << <<row.job_id, <<"Invalid", "domain", row.domain>> >> >>
    ELSE <<>>

\* Lines 45-46.
LocationErrors(row, sh) ==
    IF row.location \notin AllLocations(sh)
    THEN << <<row.job_id, <<"Invalid", "location", row.location>> >> >>
    ELSE <<>>

\* str(row.technologies).split("|"): pandas reads an empty cell as NaN,
\* and str(NaN) is "nan".
TechnologyTokens(row) ==
    IF row.technologies = <<>> THEN <<"nan">> ELSE row.technologies

\* Lines 49-51.
RECURSIVE SkillErrors(_, _, _)
SkillErrors(job_id, tokens, sh) ==
    IF tokens = <<>> THEN <<>>
    ELSE (IF tokens[1] \notin AllSkills(sh)
          THEN << <<job_id, <<"Unknown", "skill", tokens[1]>> >> >>
          ELSE <<>>)
         \o SkillErrors(job_id, Tail(tokens), sh)

\* Lines 57-65, for one key.
KeyErrors(job_id, k, sh) ==
    IF Len(k) < 2
    THEN << <<job_id, <<"Malformed", "HR", "key">> \o k>> >>
    ELSE LET level == k[1]
             role  == Tail(k)
         IN  (IF level \notin AllLevels(sh)
              THEN << <<job_id, <<"Invalid", "level", level, "in", "HR", "req">> >> >>
              ELSE <<>>)
             \o
             (IF role \notin AllRoles(sh)
              THEN << <<job_id, <<"Invalid", "role">> \o role \o <<"in", "HR", "req">> >> >>
              ELSE <<>>)

RECURSIVE KeysErrors(_, _, _)
KeysErrors(job_id, keys, sh) ==
    IF keys = <<>> THEN <<>>
    ELSE KeyErrors(job_id, keys[1], sh) \o KeysErrors(job_id, Tail(keys), sh)

\* The check with the exception swallowed.
HrErrorsSilent(row, sh) ==
    IF row.hr_requirements.json = "object"
    THEN KeysErrors(row.job_id, Keys(row.hr_requirements.items), sh)
    ELSE <<>>

\* Lines 54-67.  json.loads raises on a cell that is no JSON text, and
\* hr.keys() raises on JSON that is no object, both before the first key.
HrErrors(row, sh) ==
    IF row.hr_requirements.json = "object"
    THEN KeysErrors(row.job_id, Keys(row.hr_requirements.items), sh)
    ELSE << <<row.job_id,
              <<"HR", "requirements", "not", "JSON:", row.hr_requirements.json>> >> >>

\* The checks of a row cut short at an invalid location.
RowErrorsShortCircuit(row, sh) ==
    IF LocationErrors(row, sh) # <<>>
    THEN DateErrors(row) \o DomainErrors(row, sh) \o LocationErrors(row, sh)
    ELSE DateErrors(row) \o DomainErrors(row, sh)
           \o SkillErrors(row.job_id, TechnologyTokens(row), sh)
           \o HrErrors(row, sh)

\* Lines 36-67: one iteration of the loop over the rows.
RowErrors(row, sh) ==
    DateErrors(row) \o DomainErrors(row, sh) \o LocationErrors(row, sh)
      \o SkillErrors(row.job_id, TechnologyTokens(row), sh)
      \o HrErrors(row, sh)

RECURSIVE FileErrors(_, _)
FileErrors(file, sh) ==
    IF file = <<>> THEN <<>>
    ELSE RowErrors(file[1], sh) \o FileErrors(Tail(file), sh)

(***************************************************************************)
(* The files under shared/ explored.                                       *)
(***************************************************************************)
Levels ==
    << <<"PAT", 1>>, <<"PA", 2>>, <<"Associate", 3>>, <<"SrAssociate", 4>>,
       <<"Manager", 5>>, <<"SrManager", 6>>, <<"Arch/AD", 7>>,
       <<"Director+", 8>> >>

Range1(v) == [min |-> v, max |-> v]

\* One unlisted service line, one role, one skill: runs of n records.
LoopShared(n) ==
    [skills       |-> << <<"Programming", <<"Python">> >> >>,
     roles_levels |-> [roles  |-> << <<"Business", "Analyst">> >>,
                       levels |-> Levels],
     domains      |-> [industry_verticals |-> <<"Banking">>,
                       service_lines      |-> <<"Unlisted Service">>],
     locations    |-> [india |-> <<"Bengaluru">>, global |-> <<>>,
                       virtual |-> <<"Remote">>],
     settings     |-> [n |-> n,
                       duration_months       |-> Range1(3),
                       budget_lakhs_inr      |-> Range1(50),
                       min_experience_years  |-> Range1(2),
                       skills_per_job        |-> [max |-> 4],
                       hr_requirements_people |-> Range1(2),
                       remote_mix_probability |-> 0,
                       priority_weights      |-> << <<"High", 1>> >>]]

\* Two listed service lines with seniority-guarded roles; some skills
\* belong to two categories.
RichShared ==
    [skills       |-> << <<"Cloud_Infrastructure", <<"AWS", "Azure">> >>,
                         <<"DevOps_SRE", <<"Docker", "AWS">> >>,
                         <<"Programming", <<"Python">> >>,
                         <<"BI_Analytics", <<"SQL", "Tableau">> >>,
                         <<"Data_Engineering", <<"SQL">> >>,
                         <<"Web_Mobile", <<"React">> >> >>,
     roles_levels |-> [roles  |-> << <<"Cloud", "Engineer">>,
                                     <<"DevOps/SRE", "Engineer">>,
                                     SolutionsArchitect,
                                     <<"Business", "Analyst">>,
                                     ProjectManager >>,
                       levels |-> Levels],
     domains      |-> [industry_verticals |-> <<"Banking">>,
                       service_lines      |->
                         <<"Cloud Migration & Modernization",
                           "Consulting & Business Analysis">>],
     locations    |-> [india |-> <<"Bengaluru">>, global |-> <<>>,
                       virtual |-> <<"Remote">>],
     settings     |-> [n |-> 1,
                       duration_months       |-> [min |-> 1, max |-> 2],
                       budget_lakhs_inr      |-> Range1(50),
                       min_experience_years  |-> Range1(2),
                       skills_per_job        |-> [max |-> 2],
                       hr_requirements_people |-> [min |-> 2, max |-> 3],
                       remote_mix_probability |-> 50,
                       priority_weights      |-> << <<"High", 3>>, <<"Low", 0>> >>]]

\* date.today() of the runs explored: the date ranges drawn from it cross the
\* end of the year and the leap day of 2028.
Today == <<2027, 12, 20>>

StartOffsets == {0, 60}

\* The draws explored: the fine grid for a run of one record, one draw of
\* each kind for the longer runs.
Grid(sh) ==
    IF sh.settings.n = 1
    THEN [dden |-> JobDrawDen, jden |-> JobJitterDen, offsets |-> StartOffsets]
    ELSE [dden |-> 1, jden |-> 1, offsets |-> {0}]

(***************************************************************************)
(* main, the file it writes, and validate_jobs.                            *)
(***************************************************************************)
NoRun == [csv |-> <<>>, errors |-> <<>>, runs |-> 0, edits |-> 0]

InitFiles ==
    /\ rows = <<>>
    /\ existing_ids = <<>>
    /\ csv = <<>>
    /\ errors = <<>>
    /\ prev = NoRun
    /\ pc = "main"

\* Lines 194-197: one iteration of main's loop.
GenerateJob ==
    /\ pc = "main"
    /\ Len(rows) < shared.settings.n
    /\ LET st == shared.settings
           g  == Grid(shared)
       IN  \E service_line \in Range(shared.domains.service_lines) :
           \E domain \in Range(shared.domains.industry_verticals),
              location \in AllLocations(shared),
              coin \in {u * 100 < st.remote_mix_probability * g.dden
                          : u \in 0..(g.dden - 1)},
              months \in st.duration_months.min..st.duration_months.max,
              offset \in g.offsets,
              budget \in st.budget_lakhs_inr.min..st.budget_lakhs_inr.max,
              min_exp \in st.min_experience_years.min..st.min_experience_years.max,
              priority \in PriorityOutcomes(st.priority_weights),
              skills \in SkillsOutcomes(shared.skills, service_line,
                                        st.skills_per_job.max),
              hr_reqs_ \in {o.reqs : o \in HrOutcomes(shared.roles_levels.roles,
                                  st.hr_requirements_people, service_line,
                                  g.dden, g.jden)},
              similar \in SimilarOutcomes(existing_ids) :
             LET job == generate_job(Len(rows) + 1,
                          [service_line |-> service_line, domain |-> domain,
                           location |-> location,
                           remote_possible |-> RemotePossible(location, coin),
                           months |-> months,
                           dates |-> rand_date_range(today, offset, months),
                           budget |-> budget, min_exp |-> min_exp,
                           priority |-> priority, skills |-> skills,
                           hr_reqs |-> hr_reqs_, similar |-> similar])
             IN  /\ rows' = Append(rows, job)
                 /\ existing_ids' = Append(existing_ids, job.job_id)
    /\ UNCHANGED <<choiceVars, allocVars, shared, today, csv, errors, prev, pc>>

\* Lines 199-204.
WriteCsv ==
    /\ pc = "main"
    /\ Len(rows) = shared.settings.n
    /\ csv' = rows
    /\ pc' = "written"
    /\ UNCHANGED <<choiceVars, allocVars, shared, today, rows, existing_ids,
                   errors, prev>>

\* validate_jobs on the file as it stands.
ValidateJobs ==
    /\ pc = "written"
    /\ errors' = FileErrors(csv, shared)
    /\ pc' = "validated"
    /\ prev' = [prev EXCEPT !.runs = @ + 1]
    /\ UNCHANGED <<choiceVars, allocVars, shared, today, rows, existing_ids, csv>>

\* What an edit may put in a cell.
BadLocations == {"Atlantis"}

BadHrCells ==
    {[json |-> "JSONDecodeError", items |-> <<>>],
     [json |-> "AttributeError", items |-> <<>>],
     JsonObject(<< << <<"Guru", "Plumber">>, 1 >> >>),
     JsonObject(<< << <<"Wizard">>, 1 >> >>)}

\* data/jobs.csv is edited between two runs of the validator: one cell of
\* one record is replaced.
EditCsv ==
    /\ pc = "validated"
    /\ prev.edits < MaxEdits
    /\ \E j \in DOMAIN csv :
         \/ \E loc \in BadLocations :
              csv' = [csv EXCEPT ![j].location = loc]
         \/ \E cell \in BadHrCells :
              csv' = [csv EXCEPT ![j].hr_requirements = cell]
    /\ csv' # csv
    /\ prev' = [csv |-> csv, errors |-> errors, runs |-> prev.runs,
                edits |-> prev.edits + 1]
    /\ pc' = "written"
    /\ UNCHANGED <<choiceVars, allocVars, shared, today, rows, existing_ids, errors>>

(***************************************************************************)
(* Specifications.                                                         *)
(***************************************************************************)
\* _weighted_choice on its own.
SpecChoice == InitChoice /\ [][WeightedChoice]_vars

\* generate_hr_requirements on its own.
SpecAlloc == InitAlloc /\ [][GenerateHrRequirements]_vars

InitBuild ==
    /\ wc_weights = <<>> /\ wc_result = NoCall
    /\ hr_call = 0 /\ hr_reqs = <<>>
    /\ shared \in {LoopShared(n) : n \in 2..MaxN} \cup {RichShared}
    /\ today = Today
    /\ InitFiles

NextBuild == GenerateJob \/ WriteCsv \/ ValidateJobs

\* main, then validate_jobs on the file written.
Spec == InitBuild /\ [][NextBuild]_vars

InitAudit ==
    /\ wc_weights = <<>> /\ wc_result = NoCall
    /\ hr_call = 0 /\ hr_reqs = <<>>
    /\ shared \in {LoopShared(n) : n \in 2..MaxAuditN}
    /\ today = Today
    /\ InitFiles

NextAudit == GenerateJob \/ WriteCsv \/ ValidateJobs \/ EditCsv

\* main, then runs of validate_jobs with the file edited in between.
SpecAudit == InitAudit /\ [][NextAudit]_vars

(***************************************************************************)
(* Properties.                                                             *)
(***************************************************************************)
Guarded == {SolutionsArchitect, ProjectManager}

Junior == {"PAT", "PA"}

HrReturned == pc = "returned"

\* C1: the headcounts of the mapping generate_hr_requirements returns sum
\* to the total headcount drawn, for every total >= 1, bucket count, level
\* and jitter.
C1_SumEqualsTotal ==
    HrReturned => SumWeights(hr_reqs) = hr_call.total

\* A call with three buckets whose first allocation was clamped.
C1_Witness ==
    /\ HrReturned
    /\ Len(hr_call.chosen_roles) = 3
    /\ hr_call.total = 3
    /\ hr_call.ks[1] = JitterDen
    /\ SumWeights(hr_reqs) = 3

\* C2: every bucket receives a headcount of at least 1, so that every value
\* of the mapping returned is a positive integer.
C2_EveryHeadcountPositive ==
    HrReturned => \A x \in DOMAIN hr_reqs : hr_reqs[x][2] >= 1

\* C2 where it does hold: when the total is at least the bucket count.
C2_PositiveWhenTotalCoversBuckets ==
    (HrReturned /\ hr_call.total >= Len(hr_call.chosen_roles))
        => \A x \in DOMAIN hr_reqs : hr_reqs[x][2] >= 1

\* C6: no key of the mapping returned pairs a seniority-guarded role with
\* PAT or PA; a bucket sampled with such a pairing is keyed with Associate
\* and its role, and every other bucket with the level sampled for it.
C6_SeniorityGuard ==
    HrReturned =>
      /\ \A x \in DOMAIN hr_reqs :
           ~(Tail(hr_reqs[x][1]) \in Guarded /\ hr_reqs[x][1][1] \in Junior)
      /\ \A b \in DOMAIN hr_call.chosen_roles :
           LET role  == hr_call.chosen_roles[b]
               level == hr_call.levels[b]
           IN  IF role \in Guarded /\ level \in Junior
               THEN <<"Associate">> \o role \in Range(Keys(hr_reqs))
               ELSE <<level>> \o role \in Range(Keys(hr_reqs))

\* The architect sampled at PA and returned at Associate.
C6_Witness ==
    /\ HrReturned
    /\ \E b \in DOMAIN hr_call.chosen_roles :
         /\ hr_call.chosen_roles[b] = SolutionsArchitect
         /\ hr_call.levels[b] = "PA"
    /\ <<"Associate">> \o SolutionsArchitect \in Range(Keys(hr_reqs))

ChoiceReturned == wc_result.u >= 0

\* C4: with a positive total weight, _weighted_choice never returns a key
\* whose weight is zero, whatever the draw in [0, total).
C4_NeverZeroWeightKey ==
    (ChoiceReturned /\ SumWeights(wc_weights) > 0)
        => /\ wc_result.raised = ""
           /\ Lookup(wc_weights, wc_result.key) > 0

\* C5: _weighted_choice fails, and returns no key, when the mapping is
\* empty or its weights sum to zero.
C5_EmptyDomainFails ==
    (ChoiceReturned /\ SumWeights(wc_weights) = 0)
        => /\ wc_result.raised # ""
           /\ wc_result.key = ""

\* The ids of the rows before position x.
EarlierIds(file, x) == {file[y].job_id : y \in 1..(x - 1)}

\* C3: the record generated at position x references in similar_projects
\* only ids of records generated before it, at most two of them, and the
\* first record references none.
C3_OnlyEarlierIds ==
    \A x \in DOMAIN rows :
      /\ Range(rows[x].similar_projects) \subseteq EarlierIds(rows, x)
      /\ rows[x].job_id \notin Range(rows[x].similar_projects)
      /\ Len(rows[x].similar_projects) <= 2
      /\ x = 1 => rows[x].similar_projects = <<>>
      /\ existing_ids = [y \in DOMAIN rows |-> rows[y].job_id]

\* The fourth record referencing the third and the first, in that order.
C3_Witness ==
    /\ Len(rows) = 4
    /\ rows[4].similar_projects = <<rows[3].job_id, rows[1].job_id>>
    /\ rows[1].similar_projects = <<>>

\* The skills of the categories mapped from a service line, and of every
\* category when the service line is not mapped.
SkillsOfServiceLine(sh, service_line) ==
    UNION {Range(it[2]) :
             it \in {c \in Range(sh.skills) :
                       service_line \in DOMAIN SERVICE_LINE_TO_SKILL_CATS
                         => c[1] \in Range(SERVICE_LINE_TO_SKILL_CATS[service_line])}}

\* C7: every skill in a record's technologies belongs to a category mapped
\* from the record's service line, or to any category of the vocabulary
\* when the service line is not mapped.
C7_SkillsFollowServiceLine ==
    \A x \in DOMAIN rows :
      /\ Range(rows[x].technologies)
           \subseteq SkillsOfServiceLine(shared, rows[x].project_name[1])
      /\ Range(rows[x].technologies) \subseteq AllSkills(shared)

\* A record of a mapped service line with two skills of two categories, and
\* the vocabulary holding a skill of no category mapped from it.
C7_Witness ==
    /\ Len(rows) = 1
    /\ rows[1].project_name[1] = "Consulting & Business Analysis"
    /\ rows[1].technologies = <<"Tableau", "SQL">>
    /\ "React" \in AllSkills(shared)

\* The errors reported for one record.
RECURSIVE ErrorsOf(_, _)
ErrorsOf(errs, job_id) ==
    IF errs = <<>> THEN <<>>
    ELSE (IF errs[1][1] = job_id THEN <<errs[1]>> ELSE <<>>)
         \o ErrorsOf(Tail(errs), job_id)

\* The errors among errs whose message starts with the words of start.
RECURSIVE ErrorsStarting(_, _)
ErrorsStarting(errs, start) ==
    IF errs = <<>> THEN <<>>
    ELSE (IF Len(errs[1][2]) >= Len(start)
             /\ SubSeq(errs[1][2], 1, Len(start)) = start
          THEN <<errs[1]>> ELSE <<>>)
         \o ErrorsStarting(Tail(errs), start)

Validated == pc = "validated"

Unparseable(row) == row.hr_requirements.json # "object"

\* C8: for a record whose staffing-requirements cell does not parse, the
\* validator reports exactly one "not JSON" defect and no level, role or
\* malformed-key defect, and the other records are still validated: an
\* invalid location of any other record is reported.
C8_UnparseableReportedOnce ==
    Validated =>
      \A x \in DOMAIN csv :
        Unparseable(csv[x]) =>
          LET mine == ErrorsOf(errors, csv[x].job_id)
          IN  /\ Len(ErrorsStarting(mine, <<"HR", "requirements", "not", "JSON:">>)) = 1
              /\ ErrorsStarting(mine, <<"Invalid", "level">>) = <<>>
              /\ ErrorsStarting(mine, <<"Invalid", "role">>) = <<>>
              /\ ErrorsStarting(mine, <<"Malformed">>) = <<>>
              /\ \A y \in DOMAIN csv :
                   csv[y].location \notin AllLocations(shared) =>
                     <<csv[y].job_id, <<"Invalid", "location", csv[y].location>> >>
                        \in Range(errors)

\* The first record unparseable, and the second one's location reported.
C8_Witness ==
    /\ Validated
    /\ Len(csv) = 2
    /\ csv[1].hr_requirements.json = "JSONDecodeError"
    /\ csv[2].location = "Atlantis"
    /\ Len(errors) = 2

\* The last edit replaced the location of record x, valid before, by an
\* unknown one.
LocationCorrupted(x) ==
    /\ prev.edits >= 1
    /\ x \in DOMAIN csv
    /\ csv[x].location \notin AllLocations(shared)
    /\ prev.csv[x].location \in AllLocations(shared)
    /\ csv = [prev.csv EXCEPT ![x].location = csv[x].location]

\* errs without the invalid-location errors.
RECURSIVE WithoutLocationErrors(_)
WithoutLocationErrors(errs) ==
    IF errs = <<>> THEN <<>>
    ELSE (IF Len(errs[1][2]) >= 2 /\ SubSeq(errs[1][2], 1, 2) = <<"Invalid", "location">>
          THEN <<>> ELSE <<errs[1]>>)
         \o WithoutLocationErrors(Tail(errs))

\* C9: after one record's location is changed to an unknown string, the
\* validator reports one invalid-location defect with that record's id; if
\* the file had no defect before, that is the only defect; the defects of
\* every other record are those of the run before, and so are the other
\* defects of the corrupted record.
C9_LocationCorruption ==
    Validated =>
      \A x \in DOMAIN csv :
        LocationCorrupted(x) =>
          LET defect == <<csv[x].job_id, <<"Invalid", "location", csv[x].location>> >>
              mine   == ErrorsOf(errors, csv[x].job_id)
          IN  /\ prev.errors = <<>> => errors = <<defect>>
              /\ Len(ErrorsStarting(mine, <<"Invalid", "location">>)) = 1
              /\ defect \in Range(mine)
              /\ WithoutLocationErrors(mine)
                   = ErrorsOf(prev.errors, csv[x].job_id)
              /\ \A y \in DOMAIN csv :
                   y # x => ErrorsOf(errors, csv[y].job_id)
                              = ErrorsOf(prev.errors, csv[y].job_id)

\* A file without defects whose second record had its location corrupted.
C9_Witness ==
    /\ Validated
    /\ LocationCorrupted(2)
    /\ prev.errors = <<>>
    /\ errors = << <<csv[2].job_id, <<"Invalid", "location", "Atlantis">> >> >>

\* C10: the ids of the file main writes are P0001, P0002, ... in generation
\* order, and validate_jobs reports no defect for it.
C10_GeneratedFileIsValid ==
    Validated =>
      /\ errors = <<>>
      /\ Len(csv) = shared.settings.n
      /\ \A x \in DOMAIN csv :
           x <= 9 => csv[x].job_id = <<"P", "0", "0", "0", DigitChars[x + 1]>>

\* A validated one-record file with a promoted key, a headcount of zero and
\* an end date in the next year.
C10_Witness ==
    /\ Validated
    /\ errors = <<>>
    /\ Len(csv) = 1
    /\ <<"Associate">> \o SolutionsArchitect
         \in Range(Keys(csv[1].hr_requirements.items))
    /\ \E it \in Range(csv[1].hr_requirements.items) : it[2] = 0
    /\ csv[1].end_date[1] > csv[1].start_date[1]
====
